---- MODULE Spec2Model ----
(***************************************************************************)
(* Filter rule model of sync-tools (src/sync_tools/rsync_wrapper.py):      *)
(* the rule compiler (to_filter_lines, build_filter_file), the rule-line   *)
(* parser (parse_filter_lines), the glob matcher (_match_pattern) and the  *)
(* decision evaluator (decision_for_path); and the temporary artifacts of  *)
(* one sync invocation (src/sync_tools/cli.py) or one parity_check         *)
(* invocation (src/tools/rsync_parity_harness.py).                         *)
(*                                                                         *)
(* A Python str is a sequence of one-character strings; None is the        *)
(* one-element sequence NoneVal, which is no character of any alphabet.    *)
(***************************************************************************)
EXTENDS Integers, Sequences, FiniteSets, TLC

VARIABLES
    pc,                \* position of the modelled call
    pattern,           \* _match_pattern: argument pattern
    relpath,           \* _match_pattern: argument relpath
    matched,           \* _match_pattern: returned value
    patterns,          \* build_filter_file: argument patterns
    only,              \* build_filter_file: argument only
    default_excludes,  \* build_filter_file: argument default_excludes
    lines,             \* build_filter_file: returned lines / decision_for_path: filter_lines
    decisions,         \* decision_for_path result for every file of the walked tree
    parsed,            \* decision_for_path: local parsed = parse_filter_lines(filter_lines)
    filter_text,       \* build_filter_file: the text written to the rule file
    args,              \* sync / parity_check: what the invocation was given
    locals,            \* sync / parity_check / run_rsync: the locals of the invocation
    fs,                \* the temporary artifacts of the invocation that exist on disk
    exit_path,         \* sync / parity_check: the path on which the invocation ended
    effects            \* what the invocation did outside itself, in order: run_rsync
                       \* calls, subprocess runs, walks, dump and report writes

vars == <<pc, pattern, relpath, matched, patterns, only, default_excludes, lines,
          decisions, parsed, filter_text, args, locals, fs, exit_path, effects>>

\* the variables of a sync or parity_check invocation
syncvars == <<args, locals, fs, exit_path, effects>>

----------------------------------------------------------------------------
(* Bounds *)

\* longest glob body of a pattern handed to _match_pattern
MaxBody == 3
\* deepest relative path of the walked tree
MaxDepth == 3
\* most segments of the stem of a user pattern handed to the rule compiler
MaxSegs == 2
\* longest pattern list handed to the rule compiler
MaxPatterns == 2
\* longest rule-line list handed directly to decision_for_path
MaxRules == 3

----------------------------------------------------------------------------
(* Python str built-ins used by the source *)

NoneVal == <<"<None>">>

Whitespace == {" "}

\* s.startswith(p)
startswith(s, p) == Len(p) <= Len(s) /\ SubSeq(s, 1, Len(p)) = p

\* s.endswith(p)
endswith(s, p) == Len(p) <= Len(s) /\ SubSeq(s, Len(s) - Len(p) + 1, Len(s)) = p

\* s.lstrip(chars): drops every leading character that is in the set chars
RECURSIVE lstrip(_, _)
lstrip(s, chars) ==
    IF s # <<>> /\ Head(s) \in chars THEN lstrip(Tail(s), chars) ELSE s

\* s.rstrip(chars): drops every trailing character that is in the set chars
RECURSIVE rstrip(_, _)
rstrip(s, chars) ==
    IF s # <<>> /\ s[Len(s)] \in chars
    THEN rstrip(SubSeq(s, 1, Len(s) - 1), chars)
    ELSE s

\* s.strip()
strip(s) == rstrip(lstrip(s, Whitespace), Whitespace)

\* c in s
contains(s, c) == \E i \in 1..Len(s) : s[i] = c

\* s.split("/"): the segments between slashes (never an empty list)
RECURSIVE split(_)
split(s) ==
    IF ~contains(s, "/") THEN <<s>>
    ELSE LET i == CHOOSE k \in 1..Len(s) :
                      s[k] = "/" /\ \A j \in 1..(k - 1) : s[j] # "/"
         IN  <<SubSeq(s, 1, i - 1)>> \o split(SubSeq(s, i + 1, Len(s)))

\* the line separator "\n"
NL == "\n"

\* join writing the strings one after the other with nothing between them
RECURSIVE join_without_separator(_, _)
join_without_separator(sep, strs) ==
    IF strs = <<>> THEN <<>>
    ELSE Head(strs) \o join_without_separator(sep, Tail(strs))

\* sep.join(strs) for a one-character separator
RECURSIVE join(_, _)
join(sep, strs) ==
    IF strs = <<>> THEN <<>>
    ELSE IF Len(strs) = 1 THEN Head(strs)
    ELSE Head(strs) \o <<sep>> \o join(sep, Tail(strs))

\* os.path.basename(p): what follows the last slash
basename(p) ==
    IF ~contains(p, "/") THEN p
    ELSE LET i == CHOOSE k \in 1..Len(p) :
                      p[k] = "/" /\ \A j \in (k + 1)..Len(p) : p[j] # "/"
         IN  SubSeq(p, i + 1, Len(p))

----------------------------------------------------------------------------
(* _match_pattern: glob to regex, then a whole-subject match *)

\* glob_to_regex with "*" crossing directory separators like "**"
RECURSIVE glob_to_regex_star_crosses(_)
glob_to_regex_star_crosses(pat) ==
    IF pat = <<>> THEN <<>>
    ELSE IF Head(pat) = "*"
         THEN <<[kind |-> "dotstar"]>> \o glob_to_regex_star_crosses(Tail(pat))
    ELSE IF Head(pat) = "?"
         THEN <<[kind |-> "segchar"]>> \o glob_to_regex_star_crosses(Tail(pat))
    ELSE <<[kind |-> "lit", c |-> Head(pat)]>> \o glob_to_regex_star_crosses(Tail(pat))

\* The regex built by the while loop, as a token sequence:
\*   "**" -> ".*",  "*" -> "[^/]*",  "?" -> "[^/]",  c -> re.escape(c)
RECURSIVE glob_to_regex(_)
glob_to_regex(pat) ==
    IF pat = <<>> THEN <<>>
    ELSE IF Len(pat) >= 2 /\ SubSeq(pat, 1, 2) = <<"*", "*">>
         THEN <<[kind |-> "dotstar"]>> \o glob_to_regex(SubSeq(pat, 3, Len(pat)))
    ELSE IF Head(pat) = "*"
         THEN <<[kind |-> "segstar"]>> \o glob_to_regex(Tail(pat))
    ELSE IF Head(pat) = "?"
         THEN <<[kind |-> "segchar"]>> \o glob_to_regex(Tail(pat))
    ELSE <<[kind |-> "lit", c |-> Head(pat)]>> \o glob_to_regex(Tail(pat))

\* re.compile('^' + regex + '$').match(subject) is not None
RECURSIVE regex_match(_, _)
regex_match(rx, subject) ==
    IF rx = <<>> THEN subject = <<>>
    ELSE LET t == Head(rx) IN
         CASE t.kind = "lit" ->
                  /\ subject # <<>>
                  /\ Head(subject) = t.c
                  /\ regex_match(Tail(rx), Tail(subject))
           [] t.kind = "segchar" ->
                  /\ subject # <<>>
                  /\ Head(subject) # "/"
                  /\ regex_match(Tail(rx), Tail(subject))
           [] t.kind = "segstar" ->
                  \E n \in 0..Len(subject) :
                      /\ \A j \in 1..n : subject[j] # "/"
                      /\ regex_match(Tail(rx), SubSeq(subject, n + 1, Len(subject)))
           [] t.kind = "dotstar" ->
                  \E n \in 0..Len(subject) :
                      regex_match(Tail(rx), SubSeq(subject, n + 1, Len(subject)))

\* pattern after strip(), removal of one leading "./" and of all leading slashes
normalize_pattern(p) ==
    LET s == strip(p)
        t == IF startswith(s, <<".", "/">>) THEN SubSeq(s, 3, Len(s)) ELSE s
    IN  lstrip(t, {"/"})

\* prefix_match comparing plain string prefixes, without the separator
prefix_match_string_prefix(base, rel) == startswith(rel, base)

\* relpath == base or relpath.startswith(base + '/')
prefix_match(base, rel) == rel = base \/ startswith(rel, base \o <<"/">>)

\* choose_subject always taking the whole relative path
choose_subject_whole_path(pat, rel) == rel

\* subject = relpath if contains_slash else os.path.basename(relpath)
choose_subject(pat, rel) == IF contains(pat, "/") THEN rel ELSE basename(rel)

_match_pattern(p, rel) ==
    LET pat == normalize_pattern(p) IN
    IF endswith(pat, <<"/", "*", "*">>)
    THEN prefix_match(rstrip(SubSeq(pat, 1, Len(pat) - 3), {"/"}), rel)
    ELSE IF endswith(pat, <<"/">>)
    THEN prefix_match(rstrip(pat, {"/"}), rel)
    ELSE regex_match(glob_to_regex(pat), choose_subject(pat, rel))

----------------------------------------------------------------------------
(* parse_filter_lines and decision_for_path *)

\* parse_line without the fallback for a sign that no blank follows
parse_line_needs_blank_after_sign(ln) ==
    LET s == strip(ln) IN
    IF s = <<>> THEN <<>>
    ELSE IF startswith(s, <<"+", " ">>)
         THEN <<[action |-> "+", pat |-> strip(SubSeq(s, 3, Len(s)))]>>
    ELSE IF startswith(s, <<"-", " ">>)
         THEN <<[action |-> "-", pat |-> strip(SubSeq(s, 3, Len(s)))]>>
    ELSE <<[action |-> "-", pat |-> s]>>

\* one line of the for loop: the (action, pattern) pairs a line contributes
parse_line(ln) ==
    LET s == strip(ln) IN
    IF s = <<>> THEN <<>>
    ELSE IF startswith(s, <<"+", " ">>)
         THEN <<[action |-> "+", pat |-> strip(SubSeq(s, 3, Len(s)))]>>
    ELSE IF startswith(s, <<"-", " ">>)
         THEN <<[action |-> "-", pat |-> strip(SubSeq(s, 3, Len(s)))]>>
    ELSE IF Head(s) \in {"+", "-"}
         THEN <<[action |-> Head(s), pat |-> strip(Tail(s))]>>
    ELSE <<[action |-> "-", pat |-> s]>>

RECURSIVE parse_filter_lines(_)
parse_filter_lines(lns) ==
    IF lns = <<>> THEN <<>>
    ELSE parse_line(Head(lns)) \o parse_filter_lines(Tail(lns))

\* scan_rules stopping at the first rule that matches
RECURSIVE scan_rules_first_match(_, _, _)
scan_rules_first_match(rules, rel, decision) ==
    IF rules = <<>> THEN decision
    ELSE IF _match_pattern(Head(rules).pat, rel)
         THEN (IF Head(rules).action = "+" THEN "include" ELSE "exclude")
    ELSE scan_rules_first_match(Tail(rules), rel, decision)

\* the for loop of decision_for_path over the rules rules, from `decision`
RECURSIVE scan_rules(_, _, _)
scan_rules(rules, rel, decision) ==
    IF rules = <<>> THEN decision
    ELSE scan_rules(Tail(rules), rel,
                    IF _match_pattern(Head(rules).pat, rel)
                    THEN (IF Head(rules).action = "+" THEN "include" ELSE "exclude")
                    ELSE decision)

decision_for_path(rel, filter_lines) ==
    scan_rules(parse_filter_lines(filter_lines), rel, "neutral")

----------------------------------------------------------------------------
(* to_filter_lines and build_filter_file *)

\* `if not pat`: None and the empty string are skipped
falsy(pat) == pat = NoneVal \/ pat = <<>>

_ensure_slash_prefix(p) == IF ~startswith(p, <<"/">>) THEN <<"/">> \o p ELSE p

\* for p in parts: acc += "/" + p; append "+ " + acc
RECURSIVE ancestor_lines(_, _)
ancestor_lines(parts, acc) ==
    IF parts = <<>> THEN <<>>
    ELSE LET acc2 == acc \o <<"/">> \o Head(parts)
         IN  <<(<<"+", " ">> \o acc2)>> \o ancestor_lines(Tail(parts), acc2)

\* include_chain without the ancestors: only the path and its recursive rule
include_chain_no_ancestors(base) ==
    <<(<<"+", " ", "/">>), (<<"+", " ">> \o base),
      (<<"+", " ">> \o base \o <<"/", "*", "*">>)>>

\* "+ /", the ancestor chain of base, and "+ base/**"
include_chain(base) ==
    <<(<<"+", " ", "/">>)>>
        \o ancestor_lines(split(lstrip(base, {"/"})), <<>>)
        \o <<(<<"+", " ">> \o base \o <<"/", "*", "*">>)>>

\* base = pat[1:].rstrip("/**").rstrip("/"), slash-prefixed
force_include_base(pat) ==
    _ensure_slash_prefix(rstrip(rstrip(Tail(pat), {"/", "*"}), {"/"}))

\* collect putting each new exclude in front of the earlier ones
RECURSIVE collect_newest_exclude_first(_, _, _)
collect_newest_exclude_first(pats, includes, excludes) ==
    IF pats = <<>> THEN [includes |-> includes, excludes |-> excludes]
    ELSE IF falsy(Head(pats))
         THEN collect_newest_exclude_first(Tail(pats), includes, excludes)
    ELSE LET pat == strip(Head(pats)) IN
         IF startswith(pat, <<"!">>)
         THEN collect_newest_exclude_first(Tail(pats),
                      includes \o include_chain(force_include_base(pat)),
                      excludes)
         ELSE collect_newest_exclude_first(Tail(pats), includes,
                                           <<(<<"-", " ">> \o pat)>> \o excludes)

\* the for loop of to_filter_lines: the include and exclude lists it builds
RECURSIVE collect(_, _, _)
collect(pats, includes, excludes) ==
    IF pats = <<>> THEN [includes |-> includes, excludes |-> excludes]
    ELSE IF falsy(Head(pats)) THEN collect(Tail(pats), includes, excludes)
    ELSE LET pat == strip(Head(pats)) IN
         IF startswith(pat, <<"!">>)
         THEN collect(Tail(pats),
                      includes \o include_chain(force_include_base(pat)),
                      excludes)
         ELSE collect(Tail(pats), includes, Append(excludes, <<"-", " ">> \o pat))

to_filter_lines(pats) ==
    LET r == collect(pats, <<>>, <<>>) IN r.includes \o r.excludes

\* whitelist_base keeping a leading "!" as part of the path
whitelist_base_keeps_bang(pat) ==
    _ensure_slash_prefix(rstrip(strip(pat), {"/"}))

\* p = pat.strip(), leading "!" dropped, rstrip("/"), slash-prefixed
whitelist_base(pat) ==
    LET p == strip(pat)
        q == IF startswith(p, <<"!">>) THEN Tail(p) ELSE p
    IN  _ensure_slash_prefix(rstrip(q, {"/"}))

\* whitelist_lines closing every entry's chain with its own catch-all
RECURSIVE whitelist_lines_catch_all_per_entry(_)
whitelist_lines_catch_all_per_entry(pats) ==
    IF pats = <<>> THEN <<>>
    ELSE IF falsy(Head(pats)) THEN whitelist_lines_catch_all_per_entry(Tail(pats))
    ELSE include_chain(whitelist_base(Head(pats))) \o <<(<<"-", " ", "*">>)>>
         \o whitelist_lines_catch_all_per_entry(Tail(pats))

\* whitelist mode, first loop: one include chain per non-empty pattern
RECURSIVE whitelist_lines(_)
whitelist_lines(pats) ==
    IF pats = <<>> THEN <<>>
    ELSE IF falsy(Head(pats)) THEN whitelist_lines(Tail(pats))
    ELSE include_chain(whitelist_base(Head(pats))) \o whitelist_lines(Tail(pats))

\* default_exclude_lines putting "- " in front of every entry, signed or not
RECURSIVE default_exclude_lines_always_prefixed(_)
default_exclude_lines_always_prefixed(exs) ==
    IF exs = <<>> THEN <<>>
    ELSE (IF falsy(Head(exs)) THEN <<>> ELSE <<(<<"-", " ">> \o Head(exs))>>)
         \o default_exclude_lines_always_prefixed(Tail(exs))

\* whitelist mode, second loop: the default excludes, raw rules kept verbatim
RECURSIVE default_exclude_lines(_)
default_exclude_lines(exs) ==
    IF exs = <<>> THEN <<>>
    ELSE LET ex == Head(exs) IN
         (IF falsy(ex) THEN <<>>
          ELSE IF Head(ex) \in {"+", "-"} THEN <<ex>>
          ELSE <<(<<"-", " ">> \o ex)>>)
         \o default_exclude_lines(Tail(exs))

CatchAll == <<"-", " ", "*">>

\* build_filter_file blocking everything else before the default excludes
build_filter_file_catch_all_early(pats, onlyFlag, defaults) ==
    IF onlyFlag
    THEN whitelist_lines(pats) \o <<CatchAll>> \o default_exclude_lines(defaults)
    ELSE to_filter_lines(pats)

\* build_filter_file without the final catch-all
build_filter_file_no_catch_all(pats, onlyFlag, defaults) ==
    IF onlyFlag
    THEN whitelist_lines(pats) \o default_exclude_lines(defaults)
    ELSE to_filter_lines(pats)

\* the lines build_filter_file returns (and writes to the rule file)
build_filter_file(pats, onlyFlag, defaults) ==
    IF onlyFlag
    THEN whitelist_lines(pats) \o default_exclude_lines(defaults) \o <<CatchAll>>
    ELSE to_filter_lines(pats)

----------------------------------------------------------------------------
(* Input domains *)

\* all strings over the alphabet A of length 0..n
RECURSIVE Strings(_, _)
Strings(A, n) ==
    IF n = 0 THEN {<<>>}
    ELSE LET S == Strings(A, n - 1)
         IN  S \cup {Append(s, c) : s \in {x \in S : Len(x) = n - 1}, c \in A}

Names == {<<"a">>, <<"b">>, <<"a", "b">>}

\* relative paths as os.path.relpath yields them: 1..d non-empty segments
RECURSIVE PathsOfDepth(_)
PathsOfDepth(d) ==
    IF d = 1 THEN Names
    ELSE {p \o <<"/">> \o n : p \in PathsOfDepth(d - 1), n \in Names}

Tree == UNION {PathsOfDepth(d) : d \in 1..MaxDepth}

GlobChars == {"a", "b", "/", "*", "?"}
PatternPrefixes == {<<>>, <<"/">>, <<".", "/">>, <<" ">>}
PatternSuffixes == {<<>>, <<"/">>, <<"/", "*", "*">>}

\* patterns holding the character "." that a regular expression reads as a
\* wildcard unless it is escaped
DottedPatterns == Strings({"a", "b", "."}, MaxBody)

MatchPatterns ==
    {pre \o body \o suf : pre \in PatternPrefixes,
                          body \in Strings(GlobChars, MaxBody),
                          suf \in PatternSuffixes}
        \cup DottedPatterns

----------------------------------------------------------------------------
(* Specification of the matcher: one call of _match_pattern *)

\* no sync or parity_check invocation is under way
NoInvocation ==
    /\ args = <<>>
    /\ locals = <<>>
    /\ fs = {}
    /\ exit_path = "none"
    /\ effects = <<>>

InitMatch ==
    /\ pc = "call"
    /\ pattern \in MatchPatterns
    /\ relpath \in Tree
    /\ matched = FALSE
    /\ patterns = <<>>
    /\ only = FALSE
    /\ default_excludes = <<>>
    /\ lines = <<>>
    /\ decisions = <<>>
    /\ parsed = <<>>
    /\ filter_text = <<>>
    /\ NoInvocation

MatchPattern ==
    /\ pc = "call"
    /\ matched' = _match_pattern(pattern, relpath)
    /\ pc' = "done"
    /\ UNCHANGED <<pattern, relpath, patterns, only, default_excludes, lines, decisions>>
    /\ UNCHANGED <<parsed, filter_text>>
    /\ UNCHANGED syncvars

NextMatch == MatchPattern

SpecMatch == InitMatch /\ [][NextMatch]_vars

----------------------------------------------------------------------------
(* Input domains of the rule compiler and of the evaluator *)

StemNames == {<<"a">>, <<"b">>}

RECURSIVE StemsOfDepth(_)
StemsOfDepth(d) ==
    IF d = 1 THEN StemNames
    ELSE {p \o <<"/">> \o n : p \in StemsOfDepth(d - 1), n \in StemNames}

Stems == UNION {StemsOfDepth(d) : d \in 1..MaxSegs}

\* a user pattern: optional "!", optional leading slash, a stem, and nothing,
\* a directory slash, a recursive suffix or a glob star after it; or an
\* empty / None entry
UserPatterns ==
    {bang \o anchor \o stem \o suf :
        bang \in {<<>>, <<"!">>}, anchor \in {<<>>, <<"/">>}, stem \in Stems,
        suf \in {<<>>, <<"/">>, <<"/", "*", "*">>, <<"*">>}}
    \cup {<<>>, NoneVal}

\* the patterns that may stand beside an arbitrary one in a pattern list
NeighbourPatterns == {<<"a", "*">>, <<"!", "b">>}

\* pattern lists of length 0..n: one arbitrary user pattern at any position,
\* the other entries neighbours
RECURSIVE NeighbourLists(_)
NeighbourLists(n) ==
    IF n = 0 THEN {<<>>}
    ELSE {Append(l, q) : l \in NeighbourLists(n - 1), q \in NeighbourPatterns}

PatternLists ==
    {<<>>} \cup
    {pre \o <<p>> \o post :
        p \in UserPatterns,
        pre \in UNION {NeighbourLists(k) : k \in 0..(MaxPatterns - 1)},
        post \in UNION {NeighbourLists(k) : k \in 0..(MaxPatterns - 1)}}

BoundedPatternLists == {l \in PatternLists : Len(l) <= MaxPatterns}

\* what sync passes (its "/.git/" is "/b/" here), raw and unprefixed forms,
\* an empty entry, and the default None
DefaultExcludeLists ==
    { <<>>,
      <<(<<"-", " ", "/", "b", "/">>)>>,
      <<(<<"/", "b", "/">>), <<>>, (<<"+", " ", "a", "b">>)>> }

\* rule lines handed directly to the evaluator
RulePatterns ==
    { <<"a">>, <<"*">>, <<"/", "a", "/", "b">>, <<"a", "/", "*", "*">> }

\* signed rules, a rule without the blank, an unsigned line and a blank line
RuleLines ==
    {sign \o pat : sign \in {<<"+", " ">>, <<"-", " ">>}, pat \in RulePatterns}
    \cup {<<"+", "b">>, <<"b", "/">>, <<" ">>}

RECURSIVE RuleLists(_)
RuleLists(n) ==
    IF n = 0 THEN {<<>>}
    ELSE LET S == RuleLists(n - 1)
         IN  S \cup {Append(l, r) : l \in {x \in S : Len(x) = n - 1}, r \in RuleLines}

----------------------------------------------------------------------------
(* The walk of run_rsync in list-filtered and report mode: every file of   *)
(* the tree is evaluated against the rule lines of its side                *)

\* the files under the walked root: every path of up to MaxSegs + 1 segments
RECURSIVE FilesOfDepth(_)
FilesOfDepth(d) ==
    IF d = 1 THEN StemNames
    ELSE {p \o <<"/">> \o n : p \in FilesOfDepth(d - 1), n \in StemNames}

Files == UNION {FilesOfDepth(d) : d \in 1..(MaxSegs + 1)}

ListFiltered ==
    /\ pc = "built"
    /\ decisions' = [rel \in Files |-> decision_for_path(rel, lines)]
    /\ parsed' = parse_filter_lines(lines)
    /\ pc' = "listed"
    /\ UNCHANGED <<pattern, relpath, matched, patterns, only, default_excludes, lines>>
    /\ UNCHANGED filter_text
    /\ UNCHANGED syncvars

\* the `found` / `excluded` list of the walk
Excluded == {rel \in DOMAIN decisions : decisions[rel] = "exclude"}

----------------------------------------------------------------------------
(* Specification of the evaluator: decision_for_path over given rule lines *)

InitDecide ==
    /\ pc = "built"
    /\ lines \in RuleLists(MaxRules)
    /\ decisions = <<>>
    /\ pattern = <<>>
    /\ relpath = <<>>
    /\ matched = FALSE
    /\ patterns = <<>>
    /\ only = FALSE
    /\ default_excludes = <<>>
    /\ parsed = <<>>
    /\ filter_text = <<>>
    /\ NoInvocation

NextDecide == ListFiltered

SpecDecide == InitDecide /\ [][NextDecide]_vars

----------------------------------------------------------------------------
(* Specification of the compiler: build_filter_file, then the local walk   *)

InitFilter ==
    /\ pc = "start"
    /\ patterns \in BoundedPatternLists
    /\ only \in BOOLEAN
    /\ default_excludes \in DefaultExcludeLists
    /\ lines = <<>>
    /\ decisions = <<>>
    /\ pattern = <<>>
    /\ relpath = <<>>
    /\ matched = FALSE
    /\ parsed = <<>>
    /\ filter_text = <<>>
    /\ NoInvocation

BuildFilterFile ==
    /\ pc = "start"
    /\ lines' = build_filter_file(patterns, only, default_excludes)
    /\ filter_text' = join(NL, build_filter_file(patterns, only, default_excludes))
    /\ pc' = "built"
    /\ UNCHANGED <<pattern, relpath, matched, patterns, only, default_excludes, decisions>>
    /\ UNCHANGED parsed
    /\ UNCHANGED syncvars

NextFilter == BuildFilterFile \/ ListFiltered

SpecFilter == InitFilter /\ [][NextFilter]_vars

----------------------------------------------------------------------------
(* One invocation of sync (src/sync_tools/cli.py) or of parity_check       *)
(* (src/tools/rsync_parity_harness.py), as far as its temporary artifacts  *)
(* go: what it creates, which locals name it, what it removes, and the     *)
(* path on which it ends. A call that can raise is a choice between its    *)
(* outcomes. Removing an artifact the invocation created is taken to       *)
(* succeed.                                                                *)

\* the artifacts of a remote fetch and the rule files
FetchArtifacts == {"clone_dir", "zip_file", "extract_dir"}
RuleFiles == {"src_filter", "dst_filter", "parity_filter"}

\* the locals before anything is fetched or built
NoLocals ==
    [clone_dir |-> "None", downloaded_zip_path |-> "None", extracted_dir |-> "None",
     src_tmp |-> "None", dst_tmp |-> "None", filter_path |-> "None"]

\* what the walk and the matcher variables hold during an invocation
NoFilterCall ==
    /\ pattern = <<>>
    /\ relpath = <<>>
    /\ matched = FALSE
    /\ patterns = <<>>
    /\ only = FALSE
    /\ default_excludes = <<>>
    /\ lines = <<>>
    /\ decisions = <<>>
    /\ parsed = <<>>
    /\ filter_text = <<>>

filtervars == <<pattern, relpath, matched, patterns, only, default_excludes,
                lines, decisions, parsed, filter_text>>

InitSync ==
    /\ \/ /\ pc = "sync_start"
          /\ args \in [program : {"sync"},
                       source_kind : {"local", "git", "archive"},
                       mode : {"one-way", "two-way"},
                       ignore_dest : BOOLEAN,
                       dry_run : BOOLEAN,
                       list_filtered : {"None", "src", "dst", "both"},
                       report : BOOLEAN,
                       dump_commands : BOOLEAN]
       \/ /\ pc = "parity_start"
          /\ args = [program |-> "parity_check", source_kind |-> "local",
                     mode |-> "one-way", ignore_dest |-> FALSE,
                     dry_run |-> TRUE, list_filtered |-> "None",
                     report |-> FALSE, dump_commands |-> FALSE]
    /\ locals = NoLocals
    /\ fs = {}
    /\ exit_path = "none"
    /\ effects = <<>>
    /\ NoFilterCall

\* a local source: nothing is fetched
SkipFetch ==
    /\ pc = "sync_start"
    /\ args.source_kind = "local"
    /\ pc' = "sync_config"
    /\ UNCHANGED <<args, locals, fs, exit_path>>
    /\ UNCHANGED effects
    /\ UNCHANGED filtervars

\* a git URL: mkdtemp, then git clone into it; a failure raises BadParameter
FetchGit ==
    /\ pc = "sync_start"
    /\ args.source_kind = "git"
    /\ \E r \in {"mkdtemp_raises", "clone_fails", "cloned"} :
          /\ locals' = IF r = "mkdtemp_raises" THEN locals
                       ELSE [locals EXCEPT !.clone_dir = "clone_dir"]
          /\ fs' = IF r = "mkdtemp_raises" THEN fs ELSE fs \cup {"clone_dir"}
          /\ pc' = IF r = "cloned" THEN "sync_config" ELSE "sync_exit"
          /\ exit_path' = IF r = "cloned" THEN exit_path ELSE "fetch_failed"
    /\ UNCHANGED args
    /\ UNCHANGED effects
    /\ UNCHANGED filtervars

\* an http(s) URL: temporary file, download, mkdtemp, unpack; any failure
\* raises BadParameter
FetchArchive ==
    /\ pc = "sync_start"
    /\ args.source_kind = "archive"
    /\ \E r \in {"tempfile_raises", "download_raises", "mkdtemp_raises",
                 "unpack_raises", "unpacked"} :
          /\ locals' =
                [locals EXCEPT
                    !.downloaded_zip_path =
                        IF r \in {"tempfile_raises", "download_raises"}
                        THEN "None" ELSE "zip_file",
                    !.extracted_dir =
                        IF r \in {"unpack_raises", "unpacked"}
                        THEN "extract_dir" ELSE "None"]
          /\ fs' = fs \cup (IF r = "tempfile_raises" THEN {} ELSE {"zip_file"})
                      \cup (IF r \in {"unpack_raises", "unpacked"}
                            THEN {"extract_dir"} ELSE {})
          /\ pc' = IF r = "unpacked" THEN "sync_config" ELSE "sync_exit"
          /\ exit_path' = IF r = "unpacked" THEN exit_path ELSE "fetch_failed"
    /\ UNCHANGED args
    /\ UNCHANGED effects
    /\ UNCHANGED filtervars

\* LoadConfig noting a configuration error without raising: sync goes on
LoadConfig_error_not_raised ==
    /\ pc = "sync_config"
    /\ \E r \in {"invalid_config", "missing_endpoint", "ready"} :
          /\ pc' = "sync_build_src"
          /\ exit_path' = IF r = "ready" THEN exit_path ELSE "config_error"
    /\ UNCHANGED <<args, locals, fs>>
    /\ UNCHANGED effects
    /\ UNCHANGED filtervars

\* config loading and validation, the source/dest check and the rsync
\* check: each failure raises before the try block is entered
LoadConfig ==
    /\ pc = "sync_config"
    /\ \E r \in {"invalid_config", "missing_endpoint", "rsync_missing", "ready"} :
          /\ r = "rsync_missing" => (args.list_filtered = "None" /\ ~args.dry_run)
          /\ pc' = IF r = "ready" THEN "sync_build_src" ELSE "sync_exit"
          /\ exit_path' = IF r = "ready" THEN exit_path
                          ELSE IF r = "rsync_missing" THEN "rsync_missing"
                          ELSE "config_error"
    /\ UNCHANGED <<args, locals, fs>>
    /\ UNCHANGED effects
    /\ UNCHANGED filtervars

\* the outcomes of one build_filter_file call: it raises before the
\* temporary file exists, it raises in write/flush/close after
\* NamedTemporaryFile(delete=False) created it, or it returns the name
BuildResults == {"raises_before_create", "raises_after_create", "returns"}

\* src_tmp, src_lines = build_filter_file(...), inside the try block
BuildSrcFilter ==
    /\ pc = "sync_build_src"
    /\ \E r \in BuildResults :
          /\ fs' = IF r = "raises_before_create" THEN fs ELSE fs \cup {"src_filter"}
          /\ locals' = IF r = "returns" THEN [locals EXCEPT !.src_tmp = "src_filter"]
                       ELSE locals
          /\ pc' = IF r = "returns" THEN "sync_build_dst" ELSE "sync_finally"
          /\ exit_path' = IF r = "returns" THEN exit_path ELSE "build_failed"
    /\ UNCHANGED args
    /\ UNCHANGED effects
    /\ UNCHANGED filtervars

\* if ignore_dest_list: dst_tmp, dst_lines = build_filter_file(...)
BuildDstFilter ==
    /\ pc = "sync_build_dst"
    /\ \/ /\ ~args.ignore_dest
          /\ pc' = "sync_transfer"
          /\ UNCHANGED <<locals, fs, exit_path>>
       \/ /\ args.ignore_dest
          /\ \E r \in BuildResults :
                /\ fs' = IF r = "raises_before_create" THEN fs
                         ELSE fs \cup {"dst_filter"}
                /\ locals' = IF r = "returns"
                             THEN [locals EXCEPT !.dst_tmp = "dst_filter"]
                             ELSE locals
                /\ pc' = IF r = "returns" THEN "sync_transfer" ELSE "sync_finally"
                /\ exit_path' = IF r = "returns" THEN exit_path ELSE "build_failed"
    /\ UNCHANGED args
    /\ UNCHANGED effects
    /\ UNCHANGED filtervars

\* what the environment does during one run_rsync call: whether the dump
\* file can be written, how the rsync subprocess ends (exit status zero,
\* exit status non-zero, or it cannot be started), whether the report file
\* can be written
RsyncEnvs ==
    [dump_write : {"ok", "raises"},
     tool : {"exit_0", "exit_nonzero", "not_started"},
     report_write : {"ok", "raises"}]

SubprocessEvent(tool) ==
    CASE tool = "exit_0" -> "rsync_exit_0"
      [] tool = "exit_nonzero" -> "rsync_exit_nonzero"
      [] tool = "not_started" -> "rsync_not_started"

\* the dump block of run_rsync: the write sits in try/except
dump_events(dump_commands, env) ==
    IF ~dump_commands THEN <<>>
    ELSE IF env.dump_write = "ok" THEN <<"dump_written">>
    ELSE <<"dump_failed">>

\* run_rsync with the dump write outside any try/except
run_rsync_dump_failure_raises(list_filtered, report_path, dump_commands, env) ==
    IF list_filtered # "None"
    THEN [raised |-> "None", events |-> <<"walk">>]
    ELSE IF dump_commands /\ env.dump_write = "raises"
         THEN [raised |-> "transfer_failed", events |-> <<"dump_failed">>]
    ELSE LET ran == dump_events(dump_commands, env) \o <<SubprocessEvent(env.tool)>>
         IN  IF report_path
             THEN IF env.tool = "not_started"
                  THEN [raised |-> "transfer_failed", events |-> ran]
                  ELSE IF env.report_write = "ok"
                       THEN [raised |-> "None",
                             events |-> ran \o <<"walk", "report_written">>]
                  ELSE [raised |-> "report_failed",
                        events |-> ran \o <<"walk", "report_failed">>]
             ELSE IF env.tool = "exit_0"
                  THEN [raised |-> "None", events |-> ran]
                  ELSE [raised |-> "transfer_failed", events |-> ran]

\* one run_rsync call: what it does outside itself and whether it raises
run_rsync(list_filtered, report_path, dump_commands, env) ==
    IF list_filtered # "None"
    THEN [raised |-> "None", events |-> <<"walk">>]
    ELSE LET dump == dump_events(dump_commands, env)
             ran == dump \o <<SubprocessEvent(env.tool)>>
         IN  IF report_path
             THEN \* subprocess.run: the exit status is not looked at
                  IF env.tool = "not_started"
                  THEN [raised |-> "transfer_failed", events |-> ran]
                  ELSE IF env.report_write = "ok"
                       THEN [raised |-> "None",
                             events |-> ran \o <<"walk", "report_written">>]
                  ELSE [raised |-> "report_failed",
                        events |-> ran \o <<"walk", "report_failed">>]
             ELSE \* subprocess.check_call
                  IF env.tool = "exit_0"
                  THEN [raised |-> "None", events |-> ran]
                  ELSE [raised |-> "transfer_failed", events |-> ran]

\* sync calls run_rsync(src, dst, ...): with report_path and list_filtered
\* in one-way mode, without them in two-way mode
RunRsync ==
    /\ pc = "sync_transfer"
    /\ \E env \in RsyncEnvs :
          LET oneway == args.mode # "two-way"
              r == run_rsync(IF oneway THEN args.list_filtered ELSE "None",
                             oneway /\ args.report, args.dump_commands, env)
          IN  /\ effects' = effects \o <<"run_rsync">> \o r.events
              /\ pc' = IF r.raised = "None" /\ ~oneway
                       THEN "sync_transfer_back" ELSE "sync_finally"
              /\ exit_path' = IF r.raised # "None" THEN r.raised
                              ELSE IF oneway THEN "success"
                              ELSE exit_path
    /\ UNCHANGED <<args, locals, fs>>
    /\ UNCHANGED filtervars

\* two-way mode: the second run_rsync(dst, src, ...)
RunRsyncBack ==
    /\ pc = "sync_transfer_back"
    /\ \E env \in RsyncEnvs :
          LET r == run_rsync("None", FALSE, args.dump_commands, env)
          IN  /\ effects' = effects \o <<"run_rsync">> \o r.events
              /\ exit_path' = IF r.raised # "None" THEN r.raised ELSE "success"
    /\ pc' = "sync_finally"
    /\ UNCHANGED <<args, locals, fs>>
    /\ UNCHANGED filtervars

\* what the finally block of sync removes: the paths its four locals name
RemovedByFinally ==
    {locals.downloaded_zip_path, locals.extracted_dir, locals.src_tmp, locals.dst_tmp}

Finally ==
    /\ pc = "sync_finally"
    /\ fs' = fs \ RemovedByFinally
    /\ pc' = "sync_exit"
    /\ UNCHANGED <<args, locals, exit_path>>
    /\ UNCHANGED effects
    /\ UNCHANGED filtervars

\* parity_check: filter_path, lines = build_filter_file(patterns), before
\* the try block
ParityBuild ==
    /\ pc = "parity_start"
    /\ \E r \in BuildResults :
          /\ fs' = IF r = "raises_before_create" THEN fs
                   ELSE fs \cup {"parity_filter"}
          /\ locals' = IF r = "returns"
                       THEN [locals EXCEPT !.filter_path = "parity_filter"]
                       ELSE locals
          /\ pc' = IF r = "returns" THEN "parity_try" ELSE "parity_exit"
          /\ exit_path' = IF r = "returns" THEN exit_path ELSE "build_failed"
    /\ UNCHANGED args
    /\ UNCHANGED effects
    /\ UNCHANGED filtervars

\* the try block of parity_check: the dry run and the comparison
ParityCompare ==
    /\ pc = "parity_try"
    /\ \E r \in {"agree", "mismatches", "raises"} :
          exit_path' = IF r = "raises" THEN "transfer_failed"
                       ELSE IF r = "agree" THEN "success" ELSE "mismatches"
    /\ pc' = "parity_finally"
    /\ UNCHANGED <<args, locals, fs>>
    /\ UNCHANGED effects
    /\ UNCHANGED filtervars

\* finally: os.unlink(filter_path)
ParityFinally ==
    /\ pc = "parity_finally"
    /\ fs' = fs \ {locals.filter_path}
    /\ pc' = "parity_exit"
    /\ UNCHANGED <<args, locals, exit_path>>
    /\ UNCHANGED effects
    /\ UNCHANGED filtervars

NextSync ==
    \/ SkipFetch
    \/ FetchGit
    \/ FetchArchive
    \/ LoadConfig
    \/ BuildSrcFilter
    \/ BuildDstFilter
    \/ RunRsync
    \/ RunRsyncBack
    \/ Finally
    \/ ParityBuild
    \/ ParityCompare
    \/ ParityFinally

SpecSync == InitSync /\ [][NextSync]_vars

\* the invocation has ended
Ended == pc \in {"sync_exit", "parity_exit"}

----------------------------------------------------------------------------
(* Specification of overlapping whitelists: build_filter_file(only=True)   *)
(* on entries that name a directory and paths inside it, then the walk     *)

\* a directory in its spellings, a path inside it, and another entry
OverlapEntries ==
    {<<"a">>, <<"a", "/">>, <<"!", "a">>, <<"a", "/", "b">>,
     <<"/", "a", "/", "b">>, <<"b">>}

RECURSIVE OverlapWhitelists(_)
OverlapWhitelists(n) ==
    IF n = 0 THEN {<<>>}
    ELSE LET S == OverlapWhitelists(n - 1)
         IN  S \cup {Append(l, e) : l \in {x \in S : Len(x) = n - 1}, e \in OverlapEntries}

InitOverlap ==
    /\ pc = "start"
    /\ patterns \in OverlapWhitelists(MaxPatterns)
    /\ only = TRUE
    /\ default_excludes \in DefaultExcludeLists
    /\ lines = <<>>
    /\ decisions = <<>>
    /\ pattern = <<>>
    /\ relpath = <<>>
    /\ matched = FALSE
    /\ parsed = <<>>
    /\ filter_text = <<>>
    /\ NoInvocation

SpecOverlap == InitOverlap /\ [][NextFilter]_vars

----------------------------------------------------------------------------
(* The source-side rules of sync: the patterns of .syncignore, .gitignore  *)
(* and ignore_src, or the whitelist, handed to build_filter_file           *)

\* text.splitlines()
RECURSIVE splitlines(_)
splitlines(text) ==
    IF text = <<>> THEN <<>>
    ELSE IF ~contains(text, NL) THEN <<text>>
    ELSE LET i == CHOOSE k \in 1..Len(text) :
                      text[k] = NL /\ \A j \in 1..(k - 1) : text[j] # NL
         IN  <<SubSeq(text, 1, i - 1)>> \o splitlines(SubSeq(text, i + 1, Len(text)))

\* [ln.strip() for ln in lns if ln.strip()]
RECURSIVE stripped_nonblank(_)
stripped_nonblank(lns) ==
    IF lns = <<>> THEN <<>>
    ELSE (IF strip(Head(lns)) = <<>> THEN <<>> ELSE <<strip(Head(lns))>>)
         \o stripped_nonblank(Tail(lns))

\* the patterns of an ignore file; NoneVal stands for a file that is absent
ignore_file_patterns(text) ==
    IF text = NoneVal THEN <<>> ELSE stripped_nonblank(splitlines(text))

\* src_patterns: .syncignore, then .gitignore if asked for, then ignore_src
src_patterns_of(a) ==
    ignore_file_patterns(a.syncignore)
    \o (IF a.use_source_gitignore THEN ignore_file_patterns(a.gitignore) ELSE <<>>)
    \o a.ignore_src

\* default_excludes = ["- /.git/"], and "- .*/" with exclude_hidden_dirs
default_excludes_of(a) ==
    <<(<<"-", " ", "/", ".", "g", "i", "t", "/">>)>>
    \o (IF a.exclude_hidden_dirs THEN <<(<<"-", " ", ".", "*", "/">>)>> ELSE <<>>)

\* src_lines taking the ignore patterns into the whitelist
src_lines_of_whitelist_with_ignores(a) ==
    IF a.only_list # <<>>
    THEN build_filter_file(a.only_list \o src_patterns_of(a), TRUE, default_excludes_of(a))
    ELSE build_filter_file(src_patterns_of(a), FALSE, default_excludes_of(a))

\* src_lines: the whitelist build if only_list is non-empty, else the
\* normal build of src_patterns
src_lines_of(a) ==
    IF a.only_list # <<>>
    THEN build_filter_file(a.only_list, TRUE, default_excludes_of(a))
    ELSE build_filter_file(src_patterns_of(a), FALSE, default_excludes_of(a))

\* the text of an ignore file (absent, empty, padded lines and blank lines)
IgnoreFileTexts ==
    {NoneVal, <<>>, <<"a", "\n", "!", "b">>, <<" ", "b", "/", " ", "\n", "\n", "a", "*", "\n">>}

IgnoreSrcLists == {<<>>, <<(<<"b">>)>>, <<(<<"!", "a", "/", "b">>), <<"a", "*">>>>}

OnlyLists == {<<>>, <<(<<"a">>)>>, <<(<<"a", "/", "b">>), <<"!", "b">>>>}

SourceArgs ==
    [program : {"sync"},
     syncignore : IgnoreFileTexts,
     gitignore : IgnoreFileTexts,
     use_source_gitignore : BOOLEAN,
     ignore_src : IgnoreSrcLists,
     only_list : OnlyLists,
     exclude_hidden_dirs : BOOLEAN]

InitSource ==
    /\ pc = "source_start"
    /\ args \in SourceArgs
    /\ locals = <<>>
    /\ fs = {}
    /\ exit_path = "none"
    /\ effects = <<>>
    /\ NoFilterCall

\* the head of sync's try block: src_patterns, then src_lines
BuildSourceRules ==
    /\ pc = "source_start"
    /\ patterns' = IF args.only_list # <<>> THEN args.only_list ELSE src_patterns_of(args)
    /\ only' = (args.only_list # <<>>)
    /\ default_excludes' = default_excludes_of(args)
    /\ lines' = src_lines_of(args)
    /\ filter_text' = join(NL, src_lines_of(args))
    /\ pc' = "source_built"
    /\ UNCHANGED <<pattern, relpath, matched, decisions, parsed>>
    /\ UNCHANGED syncvars

NextSource == BuildSourceRules

SpecSource == InitSource /\ [][NextSource]_vars

----------------------------------------------------------------------------
(* The report branch of run_rsync: the itemized output lines of the tool   *)
(* ("%i %n": itemize code, blank, name) are sorted into added / updated /  *)
(* deleted                                                                 *)

\* longest tool output, in lines
MaxOut == 2

\* "sub in s"
contains_str(s, sub) ==
    \E i \in 0..(Len(s) - Len(sub)) : SubSeq(s, i + 1, i + Len(sub)) = sub

\* ln.split(None, 1): the first token and, if there is one, the rest
split_once(ln) ==
    LET s == lstrip(ln, Whitespace) IN
    IF s = <<>> THEN <<>>
    ELSE IF \A k \in 1..Len(s) : s[k] \notin Whitespace THEN <<s>>
    ELSE LET i == CHOOSE k \in 1..Len(s) :
                      s[k] \in Whitespace /\ \A j \in 1..(k - 1) : s[j] \notin Whitespace
             rest == lstrip(SubSeq(s, i + 1, Len(s)), Whitespace)
         IN  IF rest = <<>> THEN <<SubSeq(s, 1, i - 1)>>
             ELSE <<SubSeq(s, 1, i - 1), rest>>

Deleting == <<"d", "e", "l", "e", "t", "i", "n", "g">>

\* the list one output line goes to: "skip" for a blank line or a line with
\* one token only
classify_line(ln) ==
    LET parts == split_once(ln) IN
    IF strip(ln) = <<>> \/ Len(parts) = 1 THEN "skip"
    ELSE LET it == parts[1] IN
         IF startswith(it, <<"*">>) \/ startswith(it, Deleting)
            \/ contains_str(ln, Deleting)
         THEN "deleted"
         ELSE IF contains(it, "+") THEN "added"
         ELSE "updated"

\* the names of the lines of `out` that go to the list `class`, in order
RECURSIVE names_of_class(_, _)
names_of_class(out, class) ==
    IF out = <<>> THEN <<>>
    ELSE (IF classify_line(Head(out)) = class
          THEN <<strip(split_once(Head(out))[2])>> ELSE <<>>)
         \o names_of_class(Tail(out), class)

\* itemize codes as rsync prints them, file names (one holds the word
\* "deleting", one a plus sign, one a blank), and the lines made of them
ItemizeCodes == {<<"*", "d", "e", "l", "e", "t", "i", "n", "g">>,
                 <<">", "f", "+", "+", "+", "+", "+", "+", "+", "+", "+">>,
                 <<">", "f", ".", "s", "t", ".", ".", ".", ".", ".", ".">>,
                 <<".", "d", ".", ".", "t", ".", ".", ".", ".", ".", ".">>,
                 <<"c", "d", "+", "+", "+", "+", "+", "+", "+", "+", "+">>}
ItemNames == {<<"a">>, <<"d", "e", "l", "e", "t", "i", "n", "g">>, <<"a", "+", "b">>, <<"a", " ", "b">>}

OutputLines ==
    {code \o <<" ">> \o name : code \in ItemizeCodes, name \in ItemNames}
    \cup {code \o <<" ", " ", " ">> \o name : code \in {<<"*", "d", "e", "l", "e", "t", "i", "n", "g">>}, name \in ItemNames}
    \cup ItemizeCodes \cup {<<>>, <<" ">>}

RECURSIVE Outputs(_)
Outputs(n) ==
    IF n = 0 THEN {<<>>}
    ELSE LET S == Outputs(n - 1)
         IN  S \cup {Append(o, l) : o \in {x \in S : Len(x) = n - 1}, l \in OutputLines}

NoReport == [out |-> <<>>, added |-> <<>>, updated |-> <<>>, deleted |-> <<>>]

InitReport ==
    /\ pc = "report_run"
    /\ locals \in {[NoReport EXCEPT !.out = o] : o \in Outputs(MaxOut)}
    /\ args = <<>>
    /\ fs = {}
    /\ exit_path = "none"
    /\ effects = <<>>
    /\ NoFilterCall

\* the for loop over proc.stdout.splitlines()
ClassifyOutput ==
    /\ pc = "report_run"
    /\ locals' = [locals EXCEPT !.added = names_of_class(locals.out, "added"),
                                !.updated = names_of_class(locals.out, "updated"),
                                !.deleted = names_of_class(locals.out, "deleted")]
    /\ pc' = "report_classified"
    /\ UNCHANGED <<args, fs, exit_path, effects>>
    /\ UNCHANGED filtervars

NextReport == ClassifyOutput

SpecReport == InitReport /\ [][NextReport]_vars

----------------------------------------------------------------------------
(* The parity harness in detail: the rule lines of a pattern list, the     *)
(* dry run of the tool, and the comparison with the local decisions        *)

\* the files under --src
ParityTree == {<<"a">>, <<"b">>, <<"a", "/", "b">>}

\* the names the dry run may print: files of the tree and a directory
ParityPrinted == ParityTree \cup {<<"a", "/">>}

\* the "%i %n" line of a name
ItemLine(name) ==
    (IF endswith(name, <<"/">>) THEN <<"c", "d", "+", "+", "+", "+", "+", "+", "+", "+", "+">> ELSE <<">", "f", "+", "+", "+", "+", "+", "+", "+", "+", "+">>) \o <<" ">> \o name

ParityPatterns == {<<"a">>, <<"!", "a">>, <<"b", "/">>, <<"*">>}

RECURSIVE ParityPatternLists(_)
ParityPatternLists(n) ==
    IF n = 0 THEN {<<>>}
    ELSE LET S == ParityPatternLists(n - 1)
         IN  S \cup {Append(l, q) : l \in {x \in S : Len(x) = n - 1}, q \in ParityPatterns}

\* run_rsync_dryrun after subprocess.run has returned: the names of the
\* output lines that have two tokens (stdout as the set of its lines)
run_rsync_dryrun(out) ==
    {strip(split_once(ln)[2]) : ln \in {l \in out : strip(l) # <<>> /\ Len(split_once(l)) = 2}}

\* the paths appended to `mismatches` by the walk
mismatches_of(decs, rsync_included) ==
    {rel \in DOMAIN decs :
        \/ decs[rel] = "exclude" /\ rel \in rsync_included
        \/ decs[rel] \in {"neutral", "include"} /\ rel \notin rsync_included}

NoParity == [tool |-> "none", rsync_included |-> {}, mismatches |-> {}]

InitParity ==
    /\ pc = "parity_start"
    /\ patterns \in ParityPatternLists(MaxPatterns)
    /\ locals = NoParity
    /\ args = <<>>
    /\ fs = {}
    /\ exit_path = "none"
    /\ effects = <<>>
    /\ lines = <<>>
    /\ decisions = <<>>
    /\ pattern = <<>>
    /\ relpath = <<>>
    /\ matched = FALSE
    /\ only = FALSE
    /\ default_excludes = <<>>
    /\ parsed = <<>>
    /\ filter_text = <<>>

\* filter_path, lines = build_filter_file(patterns)
ParityBuildLines ==
    /\ pc = "parity_start"
    /\ lines' = build_filter_file(patterns, FALSE, <<>>)
    /\ fs' = {"parity_filter"}
    /\ pc' = "parity_try"
    /\ UNCHANGED <<pattern, relpath, matched, patterns, only, default_excludes,
                   decisions, parsed, filter_text>>
    /\ UNCHANGED <<args, locals, exit_path, effects>>

\* rsync_included = run_rsync_dryrun(src, filter_path): the tool cannot be
\* started (subprocess.run raises, the finally unlinks the rule file), or it
\* runs, prints some lines and exits with zero or with an error status
ParityDryRun ==
    /\ pc = "parity_try"
    /\ \/ /\ locals' = [locals EXCEPT !.tool = "not_started"]
          /\ exit_path' = "transfer_failed"
          /\ fs' = fs \ {"parity_filter"}
          /\ pc' = "parity_exit"
       \/ /\ \E tool \in {"exit_0", "exit_nonzero"}, printed \in SUBSET ParityPrinted :
                locals' = [locals EXCEPT
                              !.tool = tool,
                              !.rsync_included =
                                  run_rsync_dryrun({ItemLine(n) : n \in printed})]
          /\ pc' = "parity_walk"
          /\ UNCHANGED <<fs, exit_path>>
    /\ UNCHANGED <<args, effects>>
    /\ UNCHANGED filtervars

\* the walk over the source tree, the return code and the finally
ParityWalk ==
    /\ pc = "parity_walk"
    /\ decisions' = [rel \in ParityTree |-> decision_for_path(rel, lines)]
    /\ locals' = [locals EXCEPT !.mismatches =
                     mismatches_of([rel \in ParityTree |-> decision_for_path(rel, lines)],
                                   locals.rsync_included)]
    /\ exit_path' = IF locals'.mismatches # {} THEN "mismatches" ELSE "success"
    /\ fs' = fs \ {"parity_filter"}
    /\ pc' = "parity_exit"
    /\ UNCHANGED <<pattern, relpath, matched, patterns, only, default_excludes,
                   lines, parsed, filter_text>>
    /\ UNCHANGED <<args, effects>>

NextParity == ParityBuildLines \/ ParityDryRun \/ ParityWalk

SpecParity == InitParity /\ [][NextParity]_vars

----------------------------------------------------------------------------
(* How the claims read a pattern *)

\* the pattern as the claims read it: surrounding blanks and a leading "./" dropped
written(p) ==
    LET s == strip(p)
    IN  IF startswith(s, <<".", "/">>) THEN SubSeq(s, 3, Len(s)) ELSE s

unanchored(p) == IF p # <<>> /\ Head(p) = "/" THEN Tail(p) ELSE p

IsLiteral(p) == \A i \in 1..Len(p) : p[i] \in {"a", "b", "/"}

----------------------------------------------------------------------------
(* Claims about decision_for_path, checked under SpecDecide *)

SignOf(action) == IF action = "+" THEN "include" ELSE "exclude"

MatchingRules(rs, rel) ==
    {i \in 1..Len(rs) : _match_pattern(rs[i].pat, rel)}

Last(S) == CHOOSE i \in S : \A j \in S : j <= i

\* C1: the decision for a path is the sign of the LAST rule whose pattern
\* matches it, and neutral iff no rule matches; so a path matched by both
\* rules of ["- A", "+ B"] is included and one matched by both rules of
\* ["+ A", "- B"] is excluded.
C1_LastMatchWins ==
    pc = "listed" =>
        \A rel \in Files :
            LET rs == parse_filter_lines(lines)
                M == MatchingRules(rs, rel)
            IN  /\ decisions[rel] = "neutral" <=> M = {}
                /\ M # {} => decisions[rel] = SignOf(rs[Last(M)].action)
                /\ \A A \in RulePatterns, B \in RulePatterns :
                       /\ ( /\ lines = <<(<<"-", " ">> \o A), (<<"+", " ">> \o B)>>
                            /\ _match_pattern(A, rel)
                            /\ _match_pattern(B, rel) ) => decisions[rel] = "include"
                       /\ ( /\ lines = <<(<<"+", " ">> \o A), (<<"-", " ">> \o B)>>
                            /\ _match_pattern(A, rel)
                            /\ _match_pattern(B, rel) ) => decisions[rel] = "exclude"

C1_Witness ==
    /\ pc = "listed"
    /\ lines = <<(<<"-", " ", "*">>), (<<"+", " ", "a">>)>>
    /\ decisions[<<"b", "/", "a">>] = "include"
    /\ decisions[<<"b", "/", "b">>] = "exclude"

----------------------------------------------------------------------------
(* Claims about the rule compiler, checked under SpecFilter *)

IsInclude(ln) == ln # <<>> /\ Head(ln) = "+"
IsExclude(ln) == ln # <<>> /\ Head(ln) = "-"

\* C2: in whitelist-only mode the returned sequence always ends with "- *",
\* whatever the pattern list (empty and None entries included) and whatever
\* the default excludes.
C2_WhitelistEndsWithCatchAll ==
    (pc \in {"built", "listed"} /\ only) =>
        (lines # <<>> /\ lines[Len(lines)] = <<"-", " ", "*">>)

C2_Witness ==
    /\ pc = "built"
    /\ only
    /\ patterns = <<NoneVal>>
    /\ Len(default_excludes) = 3
    /\ lines[Len(lines)] = <<"-", " ", "*">>

\* "/s1/.../si" for the first i of the segments
RECURSIVE JoinFirst(_, _)
JoinFirst(segs, i) ==
    IF i = 0 THEN <<>> ELSE JoinFirst(segs, i - 1) \o <<"/">> \o segs[i]

\* the chain C3 states for the path X: root, every ancestor, X, X/**
ClaimedChain(X) ==
    LET segs == split(unanchored(X))
        n == Len(segs)
    IN  <<(<<"+", " ", "/">>)>>
        \o [i \in 1..n |-> <<"+", " ">> \o JoinFirst(segs, i)]
        \o <<(<<"+", " ">> \o JoinFirst(segs, n) \o <<"/", "*", "*">>)>>

\* a force-include of a plain path: "!" and literal non-empty segments
IsForcePath(p) ==
    /\ Len(p) >= 2
    /\ Head(p) = "!"
    /\ IsLiteral(Tail(p))
    /\ p[Len(p)] # "/"

OccursAt(block, seq, k) ==
    k + Len(block) <= Len(seq) /\ SubSeq(seq, k + 1, k + Len(block)) = block

\* C3: in normal mode every force-include !X of a path X = s1/.../sn (with
\* or without a leading slash) contributes the consecutive rules "+ /",
\* "+ /s1", ..., "+ /s1/.../sn", "+ /s1/.../sn/**" in that order, and every
\* include rule of the compiled sequence precedes every exclude rule.
C3_ForceIncludeChain ==
    (pc \in {"built", "listed"} /\ ~only) =>
        /\ \A j \in 1..Len(patterns) :
               IsForcePath(patterns[j]) =>
                   \E k \in 0..Len(lines) :
                       /\ OccursAt(ClaimedChain(Tail(patterns[j])), lines, k)
                       /\ \A i \in 1..(k + Len(ClaimedChain(Tail(patterns[j])))) :
                              IsInclude(lines[i])
        /\ \A i \in 1..Len(lines), j \in 1..Len(lines) :
               (IsExclude(lines[i]) /\ IsInclude(lines[j])) => j < i

C3_Witness ==
    /\ pc = "built"
    /\ ~only
    /\ patterns = <<(<<"a", "*">>), (<<"!", "a", "/", "b">>)>>
    /\ lines = << <<"+", " ", "/">>,
                  <<"+", " ", "/", "a">>,
                  <<"+", " ", "/", "a", "/", "b">>,
                  <<"+", " ", "/", "a", "/", "b", "/", "*", "*">>,
                  <<"-", " ", "a", "*">> >>

\* a plain (exclude) pattern: a non-empty entry that does not start with "!"
IsPlain(p) == ~falsy(p) /\ Head(p) # "!"

\* C4 (as claimed): when a pattern list holds a plain exclude Y and a
\* force-include !X and Y also matches the path X, the local decision for X
\* over the compiled lines is include.
C4_ForceIncludeWins ==
    (pc = "listed" /\ ~only) =>
        \A i \in 1..Len(patterns), j \in 1..Len(patterns) :
            ( /\ IsPlain(patterns[i])
              /\ IsForcePath(patterns[j])
              /\ unanchored(Tail(patterns[j])) \in Files
              /\ _match_pattern(patterns[i], unanchored(Tail(patterns[j]))) ) =>
                decisions[unanchored(Tail(patterns[j]))] = "include"

\* a whitelist entry as the path it names: "!", leading slash and trailing
\* slashes dropped
EntryPath(p) ==
    LET q == IF p # <<>> /\ Head(p) = "!" THEN Tail(p) ELSE p
    IN  rstrip(unanchored(q), {"/"})

Entries == {EntryPath(patterns[i]) : i \in {k \in 1..Len(patterns) : ~falsy(patterns[k])}}

CoveredBy(E, rel) == rel = E \/ startswith(rel, E \o <<"/">>)

\* C5 (as claimed): in whitelist-only mode no whitelist entry, and no path
\* under one, is decided exclude over the compiled lines.
C5_WhitelistedSurvives ==
    (pc = "listed" /\ only) =>
        \A rel \in Files :
            (\E E \in Entries : CoveredBy(E, rel)) => decisions[rel] # "exclude"

\* C6: in whitelist-only mode every file that is neither a whitelist entry
\* nor under one is decided exclude, so the walk lists it as excluded.
C6_UnlistedExcluded ==
    (pc = "listed" /\ only) =>
        \A rel \in Files :
            (\A E \in Entries : ~CoveredBy(E, rel)) =>
                (decisions[rel] = "exclude" /\ rel \in Excluded)

C6_Witness ==
    /\ pc = "listed"
    /\ only
    /\ patterns = <<(<<"a">>)>>
    /\ default_excludes = <<>>
    /\ <<"b">> \in Excluded
    /\ <<"b", "/", "a">> \in Excluded

----------------------------------------------------------------------------
(* Claims about _match_pattern, checked under SpecMatch *)

\* a slash after the pattern's first character and before its last one
HasInteriorSlash(p) ==
    /\ p # <<>>
    /\ p[Len(p)] # "/"
    /\ contains(unanchored(p), "/")
    /\ Head(unanchored(p)) # "/"

CountSlashes(s) == Cardinality({i \in 1..Len(s) : s[i] = "/"})

LastSegment(rel) == split(rel)[Len(split(rel))]

\* C7: a pattern that contains no "/" is matched against the last path segment
\* only, so it gives the same answer for a path at any depth as for that
\* path's last segment alone (pattern "a" matches exactly the paths whose last
\* segment is "a"); a pattern with an interior "/" is matched against the
\* whole relative path: a literal one matches exactly the path it spells (so
\* "/a/b" matches "a/b" and not "a/b/a"), and one without "**" matches only
\* paths with as many segments as it has.
C7_BasenameVsPath ==
    pc = "done" =>
        /\ ~contains(pattern, "/") =>
               /\ matched = _match_pattern(pattern, LastSegment(relpath))
               /\ strip(pattern) = <<"a">> => (matched <=> LastSegment(relpath) = <<"a">>)
        /\ (HasInteriorSlash(written(pattern)) /\ IsLiteral(written(pattern))) =>
               (matched <=> relpath = unanchored(written(pattern)))
        /\ ( /\ HasInteriorSlash(written(pattern))
             /\ ~contains(written(pattern), "*")
             /\ matched ) =>
               CountSlashes(relpath) = CountSlashes(unanchored(written(pattern)))

C7_Witness ==
    /\ pc = "done"
    /\ pattern = <<"/", "a", "/", "b">>
    /\ relpath = <<"a", "/", "b", "/", "a">>
    /\ ~matched

\* C8 (as claimed): the full-path/basename choice is made on the pattern as
\* written, so for a single-segment literal name N the pattern "/N" matches
\* the path N and no path d/N below the root.
C8_LeadingSlashMeansFullPath ==
    ( /\ pc = "done"
      /\ Len(pattern) >= 2
      /\ Head(pattern) = "/"
      /\ \A i \in 2..Len(pattern) : pattern[i] \in {"a", "b"} ) =>
        (matched <=> relpath = Tail(pattern))

\* C9: a pattern B/** or /B/** (B non-empty, not starting or ending with a
\* slash) matches r iff r = B or r starts with B followed by "/".
StemOfRecursive(p) == unanchored(SubSeq(p, 1, Len(p) - 3))

C9_RecursiveSuffix ==
    ( /\ pc = "done"
      /\ endswith(pattern, <<"/", "*", "*">>)
      /\ StemOfRecursive(pattern) # <<>>
      /\ Head(StemOfRecursive(pattern)) \notin {"/", " ", "."}
      /\ StemOfRecursive(pattern)[Len(StemOfRecursive(pattern))] # "/" ) =>
        (matched <=> \/ relpath = StemOfRecursive(pattern)
                     \/ startswith(relpath, StemOfRecursive(pattern) \o <<"/">>))

C9_Witness ==
    /\ pc = "done"
    /\ pattern = <<"/", "a", "/", "*", "*">>
    /\ relpath = <<"a", "/", "b", "/", "a">>
    /\ matched

\* C10 (as claimed): for every stem P, the empty one included, P/ and P/**
\* match the same paths.
C10_DirMarkerEqualsRecursive ==
    (pc = "done" /\ endswith(pattern, <<"/">>)) =>
        matched = _match_pattern(pattern \o <<"*", "*">>, relpath)

\* the positions of s that the glob g can reach from the positions P, reading
\* "**" as any run, "*" as a run without "/", "?" as one character other
\* than "/" and every other character as itself
RECURSIVE GlobReach(_, _, _)
GlobReach(g, s, P) ==
    IF g = <<>> THEN P
    ELSE IF startswith(g, <<"*", "*">>)
         THEN GlobReach(SubSeq(g, 3, Len(g)), s,
                        {q \in 0..Len(s) : \E x \in P : x <= q})
    ELSE IF Head(g) = "*"
         THEN GlobReach(Tail(g), s,
                        {q \in 0..Len(s) :
                            \E x \in P : x <= q /\ \A j \in (x + 1)..q : s[j] # "/"})
    ELSE IF Head(g) = "?"
         THEN GlobReach(Tail(g), s,
                        {x + 1 : x \in {y \in P : y < Len(s) /\ s[y + 1] # "/"}})
    ELSE GlobReach(Tail(g), s,
                   {x + 1 : x \in {y \in P : y < Len(s) /\ s[y + 1] = Head(g)}})

GlobAccepts(g, s) == Len(s) \in GlobReach(g, s, {0})

-----------------------------------------------------------------------------
(* Claims about the order of the compiled rules, checked under SpecFilter *)

\* the rules one pattern compiles to when it is the only entry of the list
EmittedFor(p, onlyFlag) ==
    IF onlyFlag THEN whitelist_lines(<<p>>) ELSE to_filter_lines(<<p>>)

RECURSIVE EmittedInOrder(_, _)
EmittedInOrder(ps, onlyFlag) ==
    IF ps = <<>> THEN <<>>
    ELSE EmittedFor(Head(ps), onlyFlag) \o EmittedInOrder(Tail(ps), onlyFlag)

IsForce(p) == ~falsy(p) /\ startswith(strip(p), <<"!">>)
IsNotForce(p) == ~IsForce(p)

\* C12 (as claimed): compilation keeps the input order: the rules of the
\* compiled sequence are the rules of the first pattern, then those of the
\* second, and so on, whether the patterns are plain or force-includes.
C12_InputOrderKept ==
    pc = "built" =>
        LET E == EmittedInOrder(patterns, only)
        IN  Len(E) <= Len(lines) /\ SubSeq(lines, 1, Len(E)) = E

\* C12 (amended): in normal mode the rules of the force-includes come first,
\* in the input order of the force-includes, and the rules of the plain
\* patterns follow, in the input order of the plain patterns; in whitelist
\* mode the include chains follow the input order of all the entries.
C12_OrderKeptWithinKind ==
    pc = "built" =>
        LET E == IF only THEN EmittedInOrder(patterns, TRUE)
                 ELSE EmittedInOrder(SelectSeq(patterns, IsForce), FALSE)
                      \o EmittedInOrder(SelectSeq(patterns, IsNotForce), FALSE)
        IN  /\ Len(E) <= Len(lines)
            /\ SubSeq(lines, 1, Len(E)) = E
            /\ ~only => Len(E) = Len(lines)

C12_Witness ==
    /\ pc = "built"
    /\ ~only
    /\ patterns = <<(<<"a", "*">>), (<<"!", "b">>)>>
    /\ lines = <<(<<"+", " ", "/">>), (<<"+", " ", "/", "b">>),
                 (<<"+", " ", "/", "b", "/", "*", "*">>), (<<"-", " ", "a", "*">>)>>

-----------------------------------------------------------------------------
(* Claims about the default excludes, checked under SpecFilter *)

Range(seq) == {seq[i] : i \in 1..Len(seq)}

\* the rule the claims state for the default exclude S: S itself when it
\* starts with a sign, "- S" otherwise
ClaimedDefaultRule(S) ==
    IF Head(S) \in {"+", "-"} THEN S ELSE <<"-", " ">> \o S

\* C13 (as claimed): in normal mode the compiled sequence holds one exclude
\* rule per default exclude, so with no user patterns and the default exclude
\* of the directory b every path under b/ is decided exclude.
C13_DefaultExcludesInNormalMode ==
    (pc = "listed" /\ ~only) =>
        /\ \A i \in 1..Len(default_excludes) :
               ~falsy(default_excludes[i]) =>
                   ClaimedDefaultRule(default_excludes[i]) \in Range(lines)
        /\ ( /\ patterns = <<>>
             /\ default_excludes = <<(<<"-", " ", "/", "b", "/">>)>> ) =>
               \A rel \in Files :
                   startswith(rel, <<"b", "/">>) => decisions[rel] = "exclude"

\* the default excludes as the claims list them: the non-empty ones, in order
RECURSIVE ClaimedDefaultRules(_)
ClaimedDefaultRules(exs) ==
    IF exs = <<>> THEN <<>>
    ELSE (IF falsy(Head(exs)) THEN <<>> ELSE <<ClaimedDefaultRule(Head(exs))>>)
         \o ClaimedDefaultRules(Tail(exs))

\* C14: in whitelist mode the rules of the non-empty default excludes stand,
\* in the order given, after all the rules of the include chains and right
\* before the final "- *"; an entry that starts with "+" or "-" is emitted
\* as it is and any other entry S as "- S".
C14_WhitelistDefaultExcludes ==
    (pc = "built" /\ only) =>
        LET D == ClaimedDefaultRules(default_excludes)
            n == Len(lines)
            k == n - 1 - Len(D)
            chains == EmittedInOrder(patterns, TRUE)
        IN  /\ k >= 0
            /\ SubSeq(lines, k + 1, n - 1) = D
            /\ lines[n] = <<"-", " ", "*">>
            /\ SubSeq(lines, 1, k) = chains
            /\ \A i \in 1..k : startswith(lines[i], <<"+", " ", "/">>)

C14_Witness ==
    /\ pc = "built"
    /\ only
    /\ patterns = <<(<<"a">>)>>
    /\ default_excludes = <<(<<"/", "b", "/">>), <<>>, (<<"+", " ", "a", "b">>)>>
    /\ lines = <<(<<"+", " ", "/">>), (<<"+", " ", "/", "a">>),
                 (<<"+", " ", "/", "a", "/", "*", "*">>),
                 (<<"-", " ", "/", "b", "/">>), (<<"+", " ", "a", "b">>),
                 (<<"-", " ", "*">>)>>

-----------------------------------------------------------------------------
(* Claims about whitelist entries, checked under SpecFilter *)

ReplaceAt(seq, i, x) == [seq EXCEPT ![i] = x]
InsertAt(seq, k, x) == SubSeq(seq, 1, k) \o <<x>> \o SubSeq(seq, k + 1, Len(seq))

\* C15: whitelist compilation ignores polarity and empties: the compiled
\* lines stay the same when an entry X is replaced by !X or by X with a
\* trailing slash, and when an empty-string or None entry is inserted at any
\* position of the list.
C15_WhitelistIgnoresPolarityAndEmpties ==
    (pc = "built" /\ only) =>
        /\ \A i \in 1..Len(patterns) :
               LET X == patterns[i] IN
               ~falsy(X) =>
                   /\ lines = build_filter_file(
                                  ReplaceAt(patterns, i, X \o <<"/">>),
                                  TRUE, default_excludes)
                   /\ Head(X) # "!" =>
                          lines = build_filter_file(
                                      ReplaceAt(patterns, i, <<"!">> \o X),
                                      TRUE, default_excludes)
        /\ \A k \in 0..Len(patterns) : \A e \in {<<>>, NoneVal} :
               lines = build_filter_file(InsertAt(patterns, k, e),
                                         TRUE, default_excludes)

C15_Witness ==
    /\ pc = "built"
    /\ only
    /\ patterns = <<(<<"a", "/", "b">>), (<<"!", "b">>)>>
    /\ default_excludes = <<>>
    /\ lines = <<(<<"+", " ", "/">>), (<<"+", " ", "/", "a">>),
                 (<<"+", " ", "/", "a", "/", "b">>),
                 (<<"+", " ", "/", "a", "/", "b", "/", "*", "*">>),
                 (<<"+", " ", "/">>), (<<"+", " ", "/", "b">>),
                 (<<"+", " ", "/", "b", "/", "*", "*">>),
                 (<<"-", " ", "*">>)>>

-----------------------------------------------------------------------------
(* Claims about the path of a force-include, checked under SpecFilter *)

\* X with at most one trailing "/**" or "/" removed, and nothing else
WithoutOneSuffix(X) ==
    IF endswith(X, <<"/", "*", "*">>) THEN SubSeq(X, 1, Len(X) - 3)
    ELSE IF endswith(X, <<"/">>) THEN SubSeq(X, 1, Len(X) - 1)
    ELSE X

\* C16 (as claimed): for every force-include !X of a normal-mode list the
\* compiled sequence holds the self rule "+ /X'" followed by the recursive
\* rule "+ /X'/**", where X' is X without one trailing "/**" or "/" and
\* otherwise unchanged, so an X that ends in a glob "*" keeps it.
C16_ForceIncludeStripsOneSuffix ==
    (pc = "built" /\ ~only) =>
        \A i \in 1..Len(patterns) :
            IsForce(patterns[i]) =>
                LET base == <<"/">> \o unanchored(WithoutOneSuffix(Tail(strip(patterns[i]))))
                IN  \E k \in 1..(Len(lines) - 1) :
                        /\ lines[k] = <<"+", " ">> \o base
                        /\ lines[k + 1] = <<"+", " ">> \o base \o <<"/", "*", "*">>

-----------------------------------------------------------------------------
(* Claims about parse_filter_lines, checked under SpecDecide *)

NonBlank(ln) == \E i \in 1..Len(ln) : ln[i] \notin Whitespace

\* the (sign, pattern) pair C17 states for the non-blank line L
ClaimedPair(L) ==
    IF startswith(L, <<"+", " ">>) \/ startswith(L, <<"-", " ">>)
    THEN [action |-> Head(L), pat |-> SubSeq(L, 3, Len(L))]
    ELSE IF Head(L) \in {"+", "-"}
         THEN [action |-> Head(L), pat |-> Tail(L)]
    ELSE [action |-> "-", pat |-> L]

\* C17: parse_filter_lines maps each non-blank line to exactly one
\* (sign, pattern) pair and keeps the order of the lines: "+ P" and "- P"
\* give (sign, P), a line that starts with "+" or "-" without a blank after
\* it gives (first character, remainder), any other line L gives ("-", L),
\* and blank lines give nothing.
C17_ParseFilterLines ==
    pc = "listed" =>
        LET nb == SelectSeq(lines, NonBlank)
        IN  /\ Len(parsed) = Len(nb)
            /\ \A i \in 1..Len(nb) : parsed[i] = ClaimedPair(nb[i])

C17_Witness ==
    /\ pc = "listed"
    /\ lines = <<(<<"+", "b">>), (<<" ">>), (<<"b", "/">>)>>
    /\ parsed = <<[action |-> "+", pat |-> <<"b">>],
                  [action |-> "-", pat |-> <<"b", "/">>]>>

-----------------------------------------------------------------------------
(* Claims about the written rule file, checked under SpecFilter *)

\* the text of a file split on its newlines (never an empty list)
RECURSIVE SplitOnNewlines(_)
SplitOnNewlines(text) ==
    IF \A i \in 1..Len(text) : text[i] # NL THEN <<text>>
    ELSE LET i == CHOOSE k \in 1..Len(text) :
                      text[k] = NL /\ \A j \in 1..(k - 1) : text[j] # NL
         IN  <<SubSeq(text, 1, i - 1)>> \o SplitOnNewlines(SubSeq(text, i + 1, Len(text)))

\* C18: the lines read back from the written rule file, split on its
\* newlines, parse to the very rules the lines build_filter_file returned
\* parse to; decision_for_path reads its lines through these rules only, so
\* the decisions over the file equal the decisions over the returned lines
\* for every path, pattern list, mode and default-exclude list.
C18_RuleFileRoundTrip ==
    pc = "listed" =>
        parse_filter_lines(SplitOnNewlines(filter_text)) = parsed

C18_Witness ==
    /\ pc = "listed"
    /\ ~only
    /\ patterns = <<(<<"a", "*">>), (<<"!", "b">>)>>
    /\ filter_text = <<"+", " ", "/", NL, "+", " ", "/", "b", NL,
                       "+", " ", "/", "b", "/", "*", "*", NL, "-", " ", "a", "*">>
    /\ decisions[<<"a">>] = "exclude"
    /\ decisions[<<"b", "/", "a">>] = "exclude"
    /\ decisions[<<"b", "/", "b">>] = "include"

-----------------------------------------------------------------------------
(* Claims about temporary artifacts, checked under SpecSync *)

\* C19 (as claimed): when a sync or parity_check invocation has ended, on
\* whatever path (transfer done, transfer raised, a build failed), no rule
\* file created by one of its build_filter_file calls is left on disk.
C19_RuleFilesUnlinked ==
    Ended => fs \cap RuleFiles = {}

\* C20 (as claimed): when a sync invocation whose remote fetch succeeded has
\* ended, on whatever path (transfer done, transfer failed, configuration
\* error after the fetch, rsync missing), neither the clone directory nor
\* the downloaded archive nor the extraction directory is left on disk.
C20_FetchArtifactsRemoved ==
    ( /\ pc = "sync_exit"
      /\ args.source_kind # "local"
      /\ exit_path # "fetch_failed" ) => fs \cap FetchArtifacts = {}

\* C21 (as claimed): when the remote fetch itself failed (git clone returned
\* non-zero, or the download or the extraction raised), no fetch artifact
\* created so far (clone directory, downloaded archive, extraction
\* directory) is left on disk when the invocation has ended.
C21_FailedFetchCleansUp ==
    (pc = "sync_exit" /\ exit_path = "fetch_failed") => fs \cap FetchArtifacts = {}

-----------------------------------------------------------------------------
(* Claims about what an invocation does outside itself, under SpecSync *)

\* C22: when sync fails with a configuration error (source or dest missing,
\* config rejected by the validation) or with a failed remote fetch, no
\* run_rsync call has been made and no rule file has been created in that
\* invocation: before the configuration is accepted nothing has been built
\* or run, and a failure of these kinds ends the invocation right there.
C22_NoWorkOnConfigOrFetchError ==
    /\ pc \in {"sync_start", "sync_config"} =>
           (effects = <<>> /\ fs \cap RuleFiles = {})
    /\ exit_path \in {"config_error", "fetch_failed"} =>
           /\ pc = "sync_exit"
           /\ "run_rsync" \notin Range(effects)
           /\ fs \cap RuleFiles = {}
           /\ locals.src_tmp = "None" /\ locals.dst_tmp = "None"

C22_Witness ==
    /\ pc = "sync_exit"
    /\ exit_path = "config_error"
    /\ args.source_kind = "archive"
    /\ fs = {"zip_file", "extract_dir"}
    /\ effects = <<>>

\* the rsync subprocess ran to its end / was at least asked for
ToolRan == {"rsync_exit_0", "rsync_exit_nonzero"}
ToolAsked == ToolRan \cup {"rsync_not_started"}

\* C23 (as claimed): when sync is invoked with list-filtered set, in one-way
\* or two-way mode, no transfer subprocess is executed in that invocation.
C23_ListFilteredRunsNoSubprocess ==
    (args # <<>> /\ args.program = "sync" /\ args.list_filtered # "None") =>
        Range(effects) \cap ToolRan = {}

\* C24 (as claimed): when the transfer tool exited non-zero during a sync
\* invocation, in plain mode or in report mode, the invocation does not end
\* as a success.
C24_ToolFailurePropagates ==
    (pc = "sync_exit" /\ "rsync_exit_nonzero" \in Range(effects)) =>
        exit_path # "success"

\* C25: a failed write of the command dump does not make run_rsync raise:
\* the transfer tool is asked for right after it, and the invocation then
\* ends as the tool decides: as a success when every tool run exited zero
\* (and no later step failed), and never as a success when the tool could
\* not be started.
C25_DumpFailureAbsorbed ==
    "dump_failed" \in Range(effects) =>
        /\ \A i \in 1..Len(effects) :
               effects[i] = "dump_failed" =>
                   (i < Len(effects) /\ effects[i + 1] \in ToolAsked)
        /\ pc = "sync_exit" =>
               /\ ( /\ Range(effects) \cap ToolAsked = {"rsync_exit_0"}
                    /\ "report_failed" \notin Range(effects) ) =>
                      exit_path = "success"
               /\ "rsync_not_started" \in Range(effects) =>
                      exit_path = "transfer_failed"

C25_Witness ==
    /\ pc = "sync_exit"
    /\ args.mode = "one-way"
    /\ effects = <<"run_rsync", "dump_failed", "rsync_exit_0">>
    /\ exit_path = "success"

\* C26 (as claimed): a failed write of the markdown report does not make
\* run_rsync raise: when the transfer tool exited zero the invocation ends
\* as a success although the report could not be written.
C26_ReportFailureAbsorbed ==
    (pc = "sync_exit" /\ "report_failed" \in Range(effects)) =>
        /\ exit_path # "report_failed"
        /\ "rsync_exit_0" \in Range(effects) => exit_path = "success"

-----------------------------------------------------------------------------
(* Claims about the report, checked under SpecReport *)

\* the class C27 states for an itemize code
ClaimedClass(code) ==
    IF startswith(code, <<"*">>) \/ startswith(code, Deleting) THEN "deleted"
    ELSE IF contains(code, "+") THEN "added"
    ELSE "updated"

\* the names of the lines with a code and a name whose code has the class
RECURSIVE ClaimedNames(_, _)
ClaimedNames(out, class) ==
    IF out = <<>> THEN <<>>
    ELSE (IF Len(split_once(Head(out))) = 2
             /\ ClaimedClass(split_once(Head(out))[1]) = class
          THEN <<strip(split_once(Head(out))[2])>> ELSE <<>>)
         \o ClaimedNames(Tail(out), class)

\* C27 (as claimed): every output line with a code and a name goes to
\* exactly one of added / updated / deleted, and to the one its itemize
\* code alone decides: deleted iff the code is a "deleting" or "*" marker,
\* otherwise added iff the code holds a "+", otherwise updated.
C27_ClassByItemizeCode ==
    pc = "report_classified" =>
        /\ locals.deleted = ClaimedNames(locals.out, "deleted")
        /\ locals.added = ClaimedNames(locals.out, "added")
        /\ locals.updated = ClaimedNames(locals.out, "updated")

-----------------------------------------------------------------------------
(* Claims about the parity harness, checked under SpecParity *)

\* a file on which the local evaluator and the tool's listing disagree
Disagree(rel) ==
    \/ decision_for_path(rel, lines) = "exclude" /\ rel \in locals.rsync_included
    \/ decision_for_path(rel, lines) \in {"include", "neutral"}
       /\ rel \notin locals.rsync_included

\* the part of C28 about a tool that ran: exit code 2 (path "mismatches")
\* exactly when some file disagrees, 0 (path "success") exactly when none
ParityCodeFollowsComparison ==
    (pc = "parity_exit" /\ locals.tool = "exit_0") =>
        /\ exit_path = "mismatches" <=> \E rel \in ParityTree : Disagree(rel)
        /\ exit_path = "success" <=> \A rel \in ParityTree : ~Disagree(rel)

\* C28 (as claimed): parity_check returns 2 iff at least one file disagrees
\* and 0 iff none, and a run in which the tool itself fails (it cannot be
\* started or exits with an error status) ends with a code that is neither
\* 0 nor 2.
C28_ParityExitCodes ==
    pc = "parity_exit" =>
        IF locals.tool = "exit_0"
        THEN /\ exit_path = "mismatches" <=> \E rel \in ParityTree : Disagree(rel)
             /\ exit_path = "success" <=> \A rel \in ParityTree : ~Disagree(rel)
        ELSE exit_path \notin {"success", "mismatches"}

-----------------------------------------------------------------------------
(* Claims about overlapping whitelist entries, checked under SpecOverlap *)

\* the positions of the line l in ls
Occurrences(ls, l) == {i \in 1..Len(ls) : ls[i] = l}

\* ls with, of the line ls[i], only the occurrence at i
RECURSIVE KeepOnly(_, _, _)
KeepOnly(ls, l, i) ==
    IF ls = <<>> THEN <<>>
    ELSE (IF Head(ls) = l /\ i # 1 THEN <<>> ELSE <<Head(ls)>>)
         \o KeepOnly(Tail(ls), l, i - 1)

\* every way of keeping one occurrence of each line of D and dropping its
\* other occurrences
RECURSIVE DedupBy(_, _)
DedupBy(ls, D) ==
    IF D = {} THEN {ls}
    ELSE LET l == CHOOSE x \in D : TRUE
         IN  UNION {DedupBy(KeepOnly(ls, l, i), D \ {l}) : i \in Occurrences(ls, l)}

Dedups(ls) == DedupBy(ls, {l \in Range(ls) : Cardinality(Occurrences(ls, l)) > 1})

\* C29: for a whitelist whose entries overlap (a directory and a path inside
\* it, or one entry twice) build_filter_file(only=True) returns rule lines
\* closed by the catch-all, and dropping the repeated occurrences of
\* identical rule lines, whichever single occurrence of each is kept, leaves
\* decision_for_path unchanged for every path.
C29_OverlapHarmless ==
    (pc = "listed" /\ only) =>
        /\ lines # <<>> /\ lines[Len(lines)] = CatchAll
        /\ \A d \in Dedups(lines) : \A rel \in Files :
              decision_for_path(rel, d) = decisions[rel]

\* a directory and a path inside it were whitelisted, and lines repeat
C29_Witness ==
    /\ pc = "listed" /\ only
    /\ \E i, j \in 1..Len(patterns) :
          /\ i # j
          /\ startswith(whitelist_base(patterns[j]),
                        whitelist_base(patterns[i]) \o <<"/">>)
    /\ Dedups(lines) # {lines}

-----------------------------------------------------------------------------
(* Claims about the source-side rules, checked under SpecSource *)

\* C30: with a non-empty whitelist the source rule lines are those of the
\* whitelist and the default excludes alone, and they are the same
\* whatever .syncignore, .gitignore (read or not) and ignore_src hold.
C30_WhitelistAloneDecidesSource ==
    (pc = "source_built" /\ args.only_list # <<>>) =>
        /\ lines = whitelist_lines(args.only_list)
                   \o default_exclude_lines(default_excludes_of(args))
                   \o <<CatchAll>>
        /\ \A alt \in SourceArgs :
              (alt.only_list = args.only_list
               /\ alt.exclude_hidden_dirs = args.exclude_hidden_dirs)
              => src_lines_of(alt) = lines

\* a whitelist was given while the ignore sources held patterns
C30_Witness ==
    /\ pc = "source_built"
    /\ args.only_list # <<>>
    /\ ignore_file_patterns(args.syncignore) # <<>>
    /\ args.use_source_gitignore /\ ignore_file_patterns(args.gitignore) # <<>>
    /\ args.ignore_src # <<>>

====
